---- MODULE Spec2Model ----
(***************************************************************************)
(* Model of the tezedge BPF firewall: the XDP packet classifier            *)
(* (xdp-module/src/bin/main.rs), the userspace event consumer and the      *)
(* control-plane connection tasks (tezedge-firewall/src/lib.rs), sharing   *)
(* the kernel maps.                                                        *)
(*                                                                         *)
(* Modelling decisions                                                     *)
(*  - Userspace loads the classifier build xdp_module.elf and resolves  *)
(*    its maps by the names "blacklist", "node", "pending_peers" and       *)
(*    "peers". The classifier source at hand declares "events", "list"     *)
(*    and "status" only. Following section 6 of the specification          *)
(*    ("blacklist/list"), the loaded build is taken to declare the names   *)
(*    of ModuleMaps, with "blacklist" being the map the classifier source  *)
(*    calls "list" (IPv4 key -> status word).                              *)
(*  - The classifier runs on a little-endian target: header fields are     *)
(*    loaded from wire bytes as native little-endian integers, and the     *)
(*    code's to_be_bytes / from_le_bytes are applied to those values.      *)
(*  - A proof-of-work payload (56 bytes) is represented by the complexity  *)
(*    the external validator computes for it.                              *)
(*  - Userspace tasks are split at their suspension points and at the    *)
(*    boundaries of the exclusive section. A classifier invocation takes   *)
(*    no lock, so wherever userspace or another CPU runs beside it the     *)
(*    invocation is split at its map accesses: list.get (XdpRead),         *)
(*    status_map.get (XdpGet), list.set (XdpListSet), status_map.set       *)
(*    (XdpStatusSet) and events.insert (XdpEmit).                          *)
(*    Packet, a whole invocation in one step, is used only where nothing   *)
(*    else writes the maps (SpecClassifier, SpecFullClassifier).           *)
(*  - The classifier is attached before userspace applies the command-line *)
(*    blacklist and spawns its tasks (Boot): frames are classified from    *)
(*    the moment the maps are loaded.                                      *)
(*  - The classifier emits Event { pair, new_status, pow_bytes } while the  *)
(*    consumer reads Event { pair, event }; the type definitions of the    *)
(*    emitted form are not part of the sources, so the read of a record    *)
(*    (ReadEvent) follows the specification's tag+payload contract.        *)
(*  - Nothing in the sources inserts into the peer-identity table; the     *)
(*    step PeerRegistered stands for that insertion.                       *)
(*  - A task that panics unwinds: its guard is dropped and the task ends.  *)
(***************************************************************************)
EXTENDS Integers, Sequences, FiniteSets, TLC

(* ------------------------------------------------------------------ *)
(* Bounds of the model                                                  *)
(* ------------------------------------------------------------------ *)
\* frames that arrive in a behaviour
MaxFrames == 3

(* ------------------------------------------------------------------ *)
(* Program constants                                                    *)
(* ------------------------------------------------------------------ *)
BLOCKED == 1
POW_SENT == 2
\* HashMap::with_max_entries of "list" and of "status"
ListMax == 256
StatusMax == 65536
EthHeaderLen == 14
PowWindow == 60
PortHttp == 80
PortHttps == 443
Target == 26

(* ------------------------------------------------------------------ *)
(* Byte-level conversions (little-endian target)                        *)
(* ------------------------------------------------------------------ *)
\* native load of a 16-bit field from its two wire bytes
LoadU16(w) == w[1] + 256 * w[2]
\* native load of a 32-bit field from its four wire bytes
LoadU32(w) == w[1] + 256 * w[2] + 65536 * w[3] + 16777216 * w[4]
\* u16::to_be_bytes
ToBeBytes16(v) == << (v \div 256) % 256, v % 256 >>
\* u32::to_be_bytes
ToBeBytes32(v) ==
    << (v \div 16777216) % 256, (v \div 65536) % 256, (v \div 256) % 256, v % 256 >>
\* u16::from_le_bytes
FromLeBytes16(b) == b[1] + 256 * b[2]
\* wire (network order) bytes of a port number
WirePort(p) == << (p \div 256) % 256, p % 256 >>

(* ------------------------------------------------------------------ *)
(* Status bit flags                                                     *)
(* ------------------------------------------------------------------ *)
StatusEmpty == 0
StatusContains(s, f) == (s \div f) % 2 = 1
StatusSetBroken(s, f) == f
StatusSet(s, f) == IF StatusContains(s, f) THEN s ELSE s + f

(* ------------------------------------------------------------------ *)
(* Hash maps: functions with a finite domain                            *)
(* ------------------------------------------------------------------ *)
EmptyMap == [x \in {} |-> 0]
MapHas(m, k) == k \in DOMAIN m
\* set on a map of max entries: an existing key is updated; a new key is
\* stored while there is room and refused otherwise (the callers ignore it)
MapSet(m, k, v, max) ==
    IF k \in DOMAIN m \/ Cardinality(DOMAIN m) < max
    THEN [x \in (DOMAIN m) \cup {k} |-> IF x = k THEN v ELSE m[x]]
    ELSE m
\* set on a map whose declaration, and so its size, is not in the sources
MapPut(m, k, v) == [x \in (DOMAIN m) \cup {k} |-> IF x = k THEN v ELSE m[x]]
MapDeleteBroken(m, k) == m
MapDelete(m, k) == [x \in (DOMAIN m) \ {k} |-> m[x]]

(* ------------------------------------------------------------------ *)
(* Inputs: addresses, ports, frames                                     *)
(* ------------------------------------------------------------------ *)
\* 1.2.2.1 reads the same in both byte orders; 10.0.0.5 does not
IpPal == << 1, 2, 2, 1 >>
IpA == << 10, 0, 0, 5 >>
\* the node's own address, the destination of every frame
LocalAddr == [ ip |-> << 10, 0, 0, 1 >>, port |-> 9732 ]
RemoteIps == { IpPal, IpA }
RemotePorts == { 80, 443, 4001, 4002 }
\* "runt": a frame cut short inside its headers
FrameKinds == { "tcp4", "udp4", "ipv6", "runt" }
\* TCP payload bytes present after the headers
PayloadLens == { 0, 56, 60 }
\* complexity of the 56 bytes a full window carries, as the validator rates them
PowValues == { 25, 26 }
NoPow == 0

\* TCP/IPv4 frames as they arrive on the device; only a frame that carries
\* the full window has proof-of-work bytes to rate
TcpFrames(ips, ports, doffs, lens) ==
    { f \in [ kind : { "tcp4" }, saddr : ips, source : ports, ihl : { 5 },
              doff : doffs, payload : lens, pow : PowValues \cup { NoPow } ] :
        (f.pow # NoPow) <=> (f.payload >= PowWindow) }
\* frames of other protocols
OtherFrames ==
    [ kind : FrameKinds \ { "tcp4" }, saddr : { IpA }, source : { 4001 }, ihl : { 5 },
      doff : { 5 }, payload : { 60 }, pow : { NoPow } ]
\* the frames the classifier is examined on
Frames == TcpFrames({ IpPal }, RemotePorts, { 5 }, PayloadLens)
          \cup TcpFrames({ IpA }, { 4001 }, { 8 }, PayloadLens \cup { 59, 64 })
          \cup OtherFrames
\* the frames of one remote address that reach the running system
SystemFrames == TcpFrames({ IpPal }, { 4001, 4002 }, { 5 }, { 0, 60 })
\* a frame too short for the window
ShortFrames == TcpFrames({ IpPal }, { 4001 }, { 5 }, { 56 })

(* ------------------------------------------------------------------ *)
(* Packet classifier: xdp-module/src/bin/main.rs, fn firewall           *)
(* ------------------------------------------------------------------ *)
\* ctx.transport() and ctx.ip() both succeed only for IPv4 carrying TCP
ParsesAsTcp4Broken(f) == TRUE
ParsesAsTcp4(f) == f.kind = "tcp4"

\* u16::from_le_bytes(tcp.source.to_be_bytes())
SourcePort(f) == FromLeBytes16(ToBeBytes16(LoadU16(WirePort(f.source))))

AllowlistedBroken(f) ==
    LoadU16(WirePort(f.source)) = PortHttp \/ LoadU16(WirePort(f.source)) = PortHttps
Allowlisted(f) == SourcePort(f) = PortHttp \/ SourcePort(f) = PortHttps

\* Endpoint { ipv4: saddr.to_be_bytes(), port: source.to_be_bytes() }
RemoteEndpoint(f) ==
    [ ipv4 |-> ToBeBytes32(LoadU32(f.saddr)),
      port |-> ToBeBytes16(LoadU16(WirePort(f.source))) ]
LocalEndpoint(f) ==
    [ ipv4 |-> ToBeBytes32(LoadU32(LocalAddr.ip)),
      port |-> ToBeBytes16(LoadU16(WirePort(LocalAddr.port))) ]
PairOf(f) == [ remote |-> RemoteEndpoint(f), local |-> LocalEndpoint(f) ]

\* 14 + ihl * 4 + doff * 4
HeadersLength(f) == EthHeaderLen + f.ihl * 4 + f.doff * 4
FrameLengthBroken(f) == HeadersLength(f) + f.payload + 4
\* ctx.data_end() - ctx.data_start()
FrameLength(f) == HeadersLength(f) + f.payload
WindowReadableBroken(f) == HeadersLength(f) + PowWindow < FrameLength(f)
\* ctx.ptr_at::<[u8; 60]>(offset) succeeds when the whole window is in the frame
WindowReadable(f) == HeadersLength(f) + PowWindow <= FrameLength(f)

\* list.get(&pair.remote.ipv4), Status::empty() when absent
ReadStatus(l, f) ==
    IF MapHas(l, PairOf(f).remote.ipv4) THEN l[PairOf(f).remote.ipv4] ELSE StatusEmpty

\* the proof-of-work capture: the classification and the working status
Capture(st, f) ==
    IF ~StatusContains(st, POW_SENT)
    THEN IF HeadersLength(f) < FrameLength(f)
         THEN [ pow_bytes |-> IF WindowReadable(f)
                              THEN [ tag |-> "Bytes", b |-> f.pow ]
                              ELSE [ tag |-> "NotEnough", b |-> NoPow ],
                status |-> StatusSet(st, POW_SENT) ]
         ELSE [ pow_bytes |-> [ tag |-> "Nothing", b |-> NoPow ], status |-> st ]
    ELSE [ pow_bytes |-> [ tag |-> "Nothing", b |-> NoPow ], status |-> st ]

\* the per-pair comparison: Some(st) if status.eq(st) => (), _ => update and notify
Unchanged(sm, f, status) == MapHas(sm, PairOf(f)) /\ sm[PairOf(f)] = status

Verdict(status) == IF StatusContains(status, BLOCKED) THEN "Drop" ELSE "Pass"

\* the update and notification of lines 71-87, and the final action, given
\* the status st0 read for the remote address and the capture cap
Notify(f, l, sm, st0, cap) ==
    [ list |-> IF Unchanged(sm, f, cap.status) THEN l
               ELSE MapSet(l, PairOf(f).remote.ipv4, cap.status, ListMax),
      status_map |-> IF Unchanged(sm, f, cap.status) THEN sm
                     ELSE MapSet(sm, PairOf(f), cap.status, StatusMax),
      emit |-> IF Unchanged(sm, f, cap.status) THEN << >>
               ELSE << [ pair |-> PairOf(f), new_status |-> cap.status,
                         pow_bytes |-> cap.pow_bytes ] >>,
      verdict |-> Verdict(cap.status),
      inspected |-> TRUE, read |-> st0, tag |-> cap.pow_bytes.tag ]

\* one invocation on frame f with maps l (per IP) and sm (per pair)
Firewall(f, l, sm) ==
    IF ~ParsesAsTcp4(f) \/ Allowlisted(f)
    THEN [ list |-> l, status_map |-> sm, emit |-> << >>, verdict |-> "Pass",
           inspected |-> FALSE, read |-> StatusEmpty, tag |-> "None" ]
    ELSE Notify(f, l, sm, ReadStatus(l, f), Capture(ReadStatus(l, f), f))

(* ------------------------------------------------------------------ *)
(* Userspace inputs: addresses, commands, stream items                  *)
(* ------------------------------------------------------------------ *)
V4(o) == [ v |-> 4, o |-> o ]
V6 == [ v |-> 6, o |-> << >> ]
CmdAddrs == { V4(IpPal), V6 }
PublicKeys == { "pk1" }
NoKey == "none"
CmdPorts == { 4001 }

Block(ip) == [ t |-> "Block", ip |-> ip, port |-> 0, pk |-> NoKey ]
Unblock(ip) == [ t |-> "Unblock", ip |-> ip, port |-> 0, pk |-> NoKey ]
FilterLocalPort(p) ==
    [ t |-> "FilterLocalPort", ip |-> V4(LocalAddr.ip), port |-> p, pk |-> NoKey ]
FilterRemoteAddr(ip, p) == [ t |-> "FilterRemoteAddr", ip |-> ip, port |-> p, pk |-> NoKey ]
Disconnected(ip, p, pk) == [ t |-> "Disconnected", ip |-> ip, port |-> p, pk |-> pk ]

Commands ==
    { Block(a) : a \in CmdAddrs } \cup { Unblock(a) : a \in CmdAddrs }
    \cup { FilterLocalPort(LocalAddr.port) }
    \cup { FilterRemoteAddr(a, p) : a \in { V4(IpPal), V6 }, p \in CmdPorts }
    \cup { Disconnected(a, p, k) : a \in { V4(IpPal), V6 }, p \in CmdPorts, k \in PublicKeys }

\* what the command decoder yields for one frame of the stream
DecodeError == [ ok |-> FALSE, cmd |-> Block(V6) ]
Items == { [ ok |-> TRUE, cmd |-> c ] : c \in Commands } \cup { DecodeError }

\* CPUs on which the classifier runs
Cpus == { "cpu0", "cpu1" }
Conns == { "c1", "c2" }
EventTask == "ev"
Tasks == Conns \cup { EventTask }
Free == "free"

(* ------------------------------------------------------------------ *)
(* State                                                                *)
(* ------------------------------------------------------------------ *)
VARIABLES
    list,           \* "list" / "blacklist": IPv4 key -> status word
    status_map,     \* "status": EndpointPair -> status word
    node,           \* "node": local port -> 0
    pending_peers,  \* "pending_peers": Endpoint -> 0
    peers,          \* "peers": public key -> Endpoint
    events,         \* "events": records emitted and not yet read
    lock,           \* holder of the Mutex<Module>, or Free
    pc,             \* position of each userspace task
    cur,            \* the event or stream item a task is handling
    last,           \* the step that led to this state
    powSeen,        \* keys whose stored status has carried POW_SENT
    cmdState,       \* last blacklist operation applied for an address
    afterBad,       \* connections that have skipped a malformed command
    inflight,       \* per CPU: the classifier invocation between its map accesses
    arrived         \* frames that have arrived so far

\* the behaviours examined are those in which at most MaxFrames frames arrive
MoreFrames == arrived < MaxFrames

maps == << list, status_map, node, pending_peers, peers >>
hist == << powSeen, cmdState, afterBad >>
vars == << list, status_map, node, pending_peers, peers, events, lock, pc, cur,
           last, powSeen, cmdState, afterBad, inflight, arrived >>

\* keys the classifier derives from the remote addresses
ClassifierKeys == { ToBeBytes32(LoadU32(ip)) : ip \in RemoteIps }
\* keys userspace derives from IPv4 addresses (Ipv4Addr::octets)
Octets(a) == a.o

Idle == [ kind |-> "idle" ]

\* the keys of l whose status carries POW_SENT
PowKeys(l) == { k \in DOMAIN l : StatusContains(l[k], POW_SENT) }

(* ------------------------------------------------------------------ *)
(* Userspace helpers: tezedge-firewall/src/lib.rs                       *)
(* ------------------------------------------------------------------ *)
\* the names of the maps in the module userspace loads
ModuleMaps == { "events", "blacklist", "status", "node", "pending_peers", "peers" }
\* module.maps.iter().find(|m| m.name == name) finds the map
MapFound(name) == name \in ModuleMaps
\* with_map_ref(module, name, f): f applied to the map, or panic!("{} not found")
WithMapRef(name, applied, notFound) == IF MapFound(name) THEN applied ELSE notFound

\* check_proof_of_work(b, target): Ok when the payload meets the target
CheckProofOfWork(b, target) == b >= target

\* block_ip: map.set(ip.octets(), 0) for IPv4, unimplemented!() for IPv6
BlockIp(l, a) ==
    IF a.v = 4 THEN [ panic |-> FALSE, map |-> MapSet(l, Octets(a), 0, ListMax) ]
    ELSE [ panic |-> TRUE, map |-> l ]

\* unblock_ip: map.delete(ip.octets()) for IPv4, unimplemented!() for IPv6
UnblockIp(l, a) ==
    IF a.v = 4 THEN [ panic |-> FALSE, map |-> MapDelete(l, Octets(a)) ]
    ELSE [ panic |-> TRUE, map |-> l ]

\* the Event a record of the "events" map is read as. A record whose
\* classification is one of the two transmitted ones reads as that
\* classification; a record emitted with no classification carries no
\* discriminant of the three, and its read may take any arm of the match.
ReadEvent(rec) ==
    CASE rec.pow_bytes.tag = "Bytes" ->
            { [ kind |-> "event", ip |-> rec.pair.remote.ipv4,
                tag |-> "ReceivedPow", b |-> rec.pow_bytes.b ] }
      [] rec.pow_bytes.tag = "NotEnough" ->
            { [ kind |-> "event", ip |-> rec.pair.remote.ipv4,
                tag |-> "NotEnoughBytesForPow", b |-> NoPow ] }
      [] OTHER ->
            { [ kind |-> "event", ip |-> rec.pair.remote.ipv4,
                tag |-> "ReceivedPow", b |-> b ] : b \in PowValues }
            \cup { [ kind |-> "event", ip |-> rec.pair.remote.ipv4,
                     tag |-> t, b |-> NoPow ] :
                   t \in { "NotEnoughBytesForPow", "BlockedAlreadyConnected" } }

\* the match of event_handler on the event: which events blacklist the address
EventBlocks(e) ==
    CASE e.tag = "ReceivedPow" -> ~CheckProofOfWork(e.b, Target)
      [] e.tag = "NotEnoughBytesForPow" -> TRUE
      [] e.tag = "BlockedAlreadyConnected" -> TRUE

\* the arm of the command match: a map operation, or the catch-all arm
HasMapArm(c) ==
    \/ c.t \in { "Block", "Unblock", "FilterLocalPort" }
    \/ c.t \in { "FilterRemoteAddr", "Disconnected" } /\ c.ip.v = 4

\* Endpoint { ipv4: a.ip().octets(), port: a.port().to_be_bytes() }
CmdEndpoint(c) == [ ipv4 |-> Octets(c.ip), port |-> ToBeBytes16(c.port) ]

\* the name the matched arm resolves
CommandMap(c) ==
    CASE c.t \in { "Block", "Unblock" } -> "blacklist"
      [] c.t = "FilterLocalPort" -> "node"
      [] c.t = "FilterRemoteAddr" -> "pending_peers"
      [] c.t = "Disconnected" -> "peers"

\* the closure of the matched arm applied to the maps; panic when it aborts
ApplyArm(c, l, n, pp, pe) ==
    CASE c.t = "Block" ->
            [ panic |-> BlockIp(l, c.ip).panic, list |-> BlockIp(l, c.ip).map,
              node |-> n, pending_peers |-> pp, peers |-> pe ]
      [] c.t = "Unblock" ->
            [ panic |-> UnblockIp(l, c.ip).panic, list |-> UnblockIp(l, c.ip).map,
              node |-> n, pending_peers |-> pp, peers |-> pe ]
      [] c.t = "FilterLocalPort" ->
            [ panic |-> FALSE, list |-> l, node |-> MapPut(n, c.port, 0),
              pending_peers |-> pp, peers |-> pe ]
      [] c.t = "FilterRemoteAddr" ->
            [ panic |-> FALSE, list |-> l, node |-> n,
              pending_peers |-> MapPut(pp, CmdEndpoint(c), 0), peers |-> pe ]
      [] c.t = "Disconnected" ->
            [ panic |-> FALSE, list |-> l, node |-> n, pending_peers |-> pp,
              peers |-> MapDelete(pe, c.pk) ]

\* the effect of the matched arm; panic when the map is missing or the arm aborts
ApplyCommand(c, l, n, pp, pe) ==
    WithMapRef(CommandMap(c), ApplyArm(c, l, n, pp, pe),
               [ panic |-> TRUE, list |-> l, node |-> n, pending_peers |-> pp,
                 peers |-> pe ])

(* ------------------------------------------------------------------ *)
(* Initial state: the module loaded and attached, no task spawned yet    *)
(* ------------------------------------------------------------------ *)
AddrKeys == RemoteIps \cup ClassifierKeys
\* Opts.blacklist: the addresses given on the command line
StartupBlacklists == { << >>, << V4(IpPal) >>, << V6 >> }
PeerEndpoints ==
    { [ ipv4 |-> ToBeBytes32(LoadU32(IpPal)), port |-> ToBeBytes16(LoadU16(WirePort(p))) ] :
      p \in CmdPorts }

Loaded == [ op |-> "load", task |-> "main" ]
Booted == [ op |-> "boot", task |-> "main" ]

\* the userspace tasks as they are once firewall() has spawned them
InitTasks ==
    /\ events = << >>
    /\ lock = Free
    /\ pc = [ t \in Tasks |-> IF t = EventTask THEN "await" ELSE "closed" ]
    /\ cur = [ t \in Tasks |-> Idle ]
    /\ last = Booted
    /\ cmdState = [ k \in AddrKeys |-> "none" ]
    /\ afterBad = [ c \in Conns |-> FALSE ]
    /\ inflight = [ c \in Cpus |-> Idle ]
    /\ arrived = 0

\* Loader::load and attach_xdp have run: the maps are empty, the classifier
\* sees frames, the command-line blacklist is not applied yet
Init ==
    /\ list = EmptyMap
    /\ status_map = EmptyMap
    /\ node = EmptyMap
    /\ pending_peers = EmptyMap
    /\ peers = EmptyMap
    /\ powSeen = {}
    /\ events = << >>
    /\ lock = Free
    /\ pc = [ t \in Tasks |-> IF t = EventTask THEN "unspawned" ELSE "closed" ]
    /\ cur = [ t \in Tasks |-> Idle ]
    /\ last = Loaded
    /\ cmdState = [ k \in AddrKeys |-> "none" ]
    /\ afterBad = [ c \in Conns |-> FALSE ]
    /\ inflight = [ c \in Cpus |-> Idle ]
    /\ arrived = 0

\* the loop over Opts.blacklist: block_ip of each address in turn
RECURSIVE BlockAll(_, _)
BlockAll(l, bl) ==
    IF bl = << >> THEN [ panic |-> FALSE, map |-> l ]
    ELSE IF BlockIp(l, Head(bl)).panic THEN [ panic |-> TRUE, map |-> l ]
    ELSE BlockAll(BlockIp(l, Head(bl)).map, Tail(bl))

\* firewall() has spawned the event task and the listener
Started == pc[EventTask] \notin { "unspawned", "aborted" }

\* firewall() after attach_xdp: the command-line blacklist is applied to the
\* map "blacklist", then the event task and the listener are spawned; a
\* panic here ends the process before any task exists
Boot(bl) ==
    /\ pc[EventTask] = "unspawned"
    /\ \E r \in { WithMapRef("blacklist", BlockAll(list, bl),
                              [ panic |-> TRUE, map |-> list ]) } :
          /\ list' = r.map
          /\ pc' = [ pc EXCEPT ![EventTask] = IF r.panic THEN "aborted" ELSE "await" ]
          /\ cmdState' = [ k \in AddrKeys |->
                             IF ~r.panic /\ \E i \in 1 .. Len(bl) :
                                               bl[i].v = 4 /\ Octets(bl[i]) = k
                             THEN "startup" ELSE cmdState[k] ]
          /\ powSeen' = powSeen \cup PowKeys(r.map)
    /\ last' = Booted
    /\ UNCHANGED << status_map, node, pending_peers, peers, events, lock, cur,
                    afterBad, inflight, arrived >>

(* ------------------------------------------------------------------ *)
(* Kernel side                                                          *)
(* ------------------------------------------------------------------ *)
\* what the step record keeps of a frame: its protocol, and for a TCP/IPv4
\* frame its source address, source port and payload length as sent
FrameSeen(f) ==
    IF f.kind = "tcp4"
    THEN [ kind |-> f.kind, saddr |-> f.saddr, source |-> f.source, payload |-> f.payload ]
    ELSE [ kind |-> f.kind, saddr |-> << >>, source |-> 0, payload |-> 0 ]

\* the frame reaches the map accesses: TCP over IPv4, source port not allowlisted
Inspected(f) == ParsesAsTcp4(f) /\ ~Allowlisted(f)

\* one frame through the classifier with nothing else writing the maps
\* between its accesses
Packet(f) ==
    \E r \in { Firewall(f, list, status_map) } :
    LET key == RemoteEndpoint(f).ipv4
    IN /\ arrived' = arrived + 1
       /\ list' = r.list
       /\ status_map' = r.status_map
       /\ events' = events \o r.emit
       /\ powSeen' = powSeen \cup PowKeys(r.list)
       /\ last' = [ op |-> "packet", task |-> "xdp", frame |-> FrameSeen(f),
                    inspected |-> r.inspected, read |-> r.read, tag |-> r.tag,
                    emitted |-> Len(r.emit), verdict |-> r.verdict,
                    fresh |-> r.inspected /\ ~MapHas(list, key)
                                /\ ~MapHas(status_map, PairOf(f)),
                    seen |-> r.inspected /\ key \in powSeen,
                    peer |-> r.inspected
                             /\ \E k \in DOMAIN peers : peers[k] = RemoteEndpoint(f),
                    cmd0 |-> cmdState[f.saddr] ]
       /\ UNCHANGED << node, pending_peers, peers, lock, pc, cur, cmdState, afterBad,
                       inflight >>

\* an invocation starts on a CPU: the headers are parsed and, for a frame
\* that is inspected, the per-IP status is read (list.get); any other frame
\* is passed at once
XdpRead(cpu, f) ==
    /\ arrived' = arrived + 1
    /\ inflight[cpu] = Idle
    /\ IF Inspected(f)
       THEN /\ inflight' = [ inflight EXCEPT ![cpu] =
                               [ kind |-> "read", f |-> f, st0 |-> ReadStatus(list, f),
                                 cmd0 |-> cmdState[f.saddr],
                                 fresh |-> ~MapHas(list, RemoteEndpoint(f).ipv4),
                                 seen |-> FALSE ] ]
            /\ last' = [ op |-> "xdpread", task |-> cpu ]
       ELSE /\ inflight' = inflight
            /\ last' = [ op |-> "packet", task |-> cpu, frame |-> FrameSeen(f),
                         inspected |-> FALSE, read |-> StatusEmpty, tag |-> "None",
                         emitted |-> 0, verdict |-> "Pass", fresh |-> FALSE,
                         seen |-> FALSE, peer |-> FALSE, cmd0 |-> cmdState[f.saddr] ]
    /\ UNCHANGED << maps, events, lock, pc, cur, hist >>

\* the record of a finished invocation on frame f
Finished(cpu, emitted) ==
    LET f == inflight[cpu].f
        cap == Capture(inflight[cpu].st0, f)
    IN [ op |-> "packet", task |-> cpu, frame |-> FrameSeen(f), inspected |-> TRUE,
         read |-> inflight[cpu].st0, tag |-> cap.pow_bytes.tag, emitted |-> emitted,
         verdict |-> Verdict(cap.status), fresh |-> inflight[cpu].fresh,
         seen |-> inflight[cpu].seen,
         peer |-> \E k \in DOMAIN peers : peers[k] = RemoteEndpoint(f),
         cmd0 |-> inflight[cpu].cmd0 ]

\* the capture is computed from the status read earlier and compared with
\* the per-pair entry (status_map.get): when they are equal the invocation
\* ends with its verdict, otherwise the writes follow
XdpGet(cpu) ==
    /\ inflight[cpu].kind = "read"
    /\ \E f \in { inflight[cpu].f } :
       \E here \in { [ inflight[cpu] EXCEPT
                          !.fresh = @ /\ ~MapHas(status_map, PairOf(f)),
                          !.seen = RemoteEndpoint(f).ipv4 \in powSeen ] } :
          IF Unchanged(status_map, f, Capture(here.st0, f).status)
          THEN /\ inflight' = [ inflight EXCEPT ![cpu] = Idle ]
               /\ last' = [ Finished(cpu, 0) EXCEPT !.fresh = here.fresh,
                                                    !.seen = here.seen ]
          ELSE /\ inflight' = [ inflight EXCEPT ![cpu] = [ here EXCEPT !.kind = "changed" ] ]
               /\ last' = [ op |-> "xdpget", task |-> cpu ]
    /\ UNCHANGED << maps, events, lock, pc, cur, hist, arrived >>

\* list.set(&pair.remote.ipv4, &status)
XdpListSet(cpu) ==
    /\ inflight[cpu].kind = "changed"
    /\ \E f \in { inflight[cpu].f } :
          /\ list' = MapSet(list, PairOf(f).remote.ipv4,
                            Capture(inflight[cpu].st0, f).status, ListMax)
          /\ last' = [ op |-> "listset", task |-> cpu, frame |-> FrameSeen(f),
                       read |-> inflight[cpu].st0 ]
    /\ powSeen' = powSeen \cup PowKeys(list')
    /\ inflight' = [ inflight EXCEPT ![cpu].kind = "listset" ]
    /\ UNCHANGED << status_map, node, pending_peers, peers, events, lock, pc, cur,
                    cmdState, afterBad, arrived >>

\* status_map.set(&pair, &status)
XdpStatusSet(cpu) ==
    /\ inflight[cpu].kind = "listset"
    /\ \E f \in { inflight[cpu].f } :
          status_map' = MapSet(status_map, PairOf(f),
                               Capture(inflight[cpu].st0, f).status, StatusMax)
    /\ inflight' = [ inflight EXCEPT ![cpu].kind = "statusset" ]
    /\ last' = [ op |-> "statusset", task |-> cpu ]
    /\ UNCHANGED << list, node, pending_peers, peers, events, lock, pc, cur, hist,
                    arrived >>

\* events.insert of the record, then the verdict
XdpEmit(cpu) ==
    /\ inflight[cpu].kind = "statusset"
    /\ \E f \in { inflight[cpu].f } :
          events' = Append(events,
                           [ pair |-> PairOf(f),
                             new_status |-> Capture(inflight[cpu].st0, f).status,
                             pow_bytes |-> Capture(inflight[cpu].st0, f).pow_bytes ])
    /\ inflight' = [ inflight EXCEPT ![cpu] = Idle ]
    /\ last' = Finished(cpu, 1)
    /\ UNCHANGED << maps, lock, pc, cur, hist, arrived >>

\* the steps of an invocation after its first map access
XdpSteps(cpu) == XdpGet(cpu) \/ XdpListSet(cpu) \/ XdpStatusSet(cpu) \/ XdpEmit(cpu)

\* a peer's identity is recorded in the peer-identity table
PeerRegistered(k, ep) ==
    /\ ~MapHas(peers, k)
    /\ peers' = MapPut(peers, k, ep)
    /\ last' = [ op |-> "peer", task |-> "xdp" ]
    /\ UNCHANGED << list, status_map, node, pending_peers, events, lock, pc, cur,
                    powSeen, cmdState, afterBad, inflight, arrived >>

(* ------------------------------------------------------------------ *)
(* Event consumer: event_handler                                        *)
(* ------------------------------------------------------------------ *)
LockAvailableBroken(l) == TRUE
\* module.lock().await completes when no task holds the mutex
LockAvailable(l) == l = Free

\* events.next().await and ptr::read of the record
EvRead ==
    /\ pc[EventTask] = "await"
    /\ events # << >>
    /\ \E e \in ReadEvent(Head(events)) : cur' = [ cur EXCEPT ![EventTask] = e ]
    /\ events' = Tail(events)
    /\ pc' = [ pc EXCEPT ![EventTask] = "lock" ]
    /\ last' = [ op |-> "read", task |-> EventTask ]
    /\ UNCHANGED << maps, lock, hist, inflight, arrived >>

\* module.lock().await
Acquire(t) ==
    /\ pc[t] = "lock"
    /\ LockAvailable(lock)
    /\ lock' = t
    /\ pc' = [ pc EXCEPT ![t] = "locked" ]
    /\ last' = [ op |-> "lock", task |-> t ]
    /\ UNCHANGED << maps, events, cur, hist, inflight, arrived >>

\* with_map_ref resolves the map handle, the match on the event is applied,
\* then the guard is dropped
EvApply ==
    LET e == cur[EventTask]
        blocks == MapFound("blacklist") /\ EventBlocks(e)
    IN /\ pc[EventTask] = "locked"
       /\ list' = IF blocks THEN BlockIp(list, V4(e.ip)).map ELSE list
       /\ cmdState' = IF blocks THEN [ cmdState EXCEPT ![e.ip] = "event" ] ELSE cmdState
       /\ powSeen' = powSeen \cup PowKeys(list')
       /\ lock' = Free
       /\ pc' = [ pc EXCEPT ![EventTask] =
                     IF MapFound("blacklist") THEN "await" ELSE "panicked" ]
       /\ cur' = [ cur EXCEPT ![EventTask] = Idle ]
       /\ last' = [ op |-> "event", task |-> EventTask, ev |-> e ]
       /\ UNCHANGED << status_map, node, pending_peers, peers, events, afterBad, inflight, arrived >>

(* ------------------------------------------------------------------ *)
(* Control plane: one task per accepted connection                      *)
(* ------------------------------------------------------------------ *)
\* listener.accept() and tokio::spawn of the connection task
ConnAccept(c) ==
    /\ Started
    /\ pc[c] = "closed"
    /\ pc' = [ pc EXCEPT ![c] = "await" ]
    /\ last' = [ op |-> "accept", task |-> c ]
    /\ UNCHANGED << maps, events, lock, cur, hist, inflight, arrived >>

\* command_stream.next().await yields Some(item)
ConnRecv(c, item) ==
    /\ pc[c] = "await"
    /\ cur' = [ cur EXCEPT ![c] = [ kind |-> "item", ok |-> item.ok, cmd |-> item.cmd ] ]
    /\ pc' = [ pc EXCEPT ![c] = "lock" ]
    /\ last' = [ op |-> "recv", task |-> c ]
    /\ UNCHANGED << maps, events, lock, hist, inflight, arrived >>

\* command_stream.next().await yields None: the task ends
ConnEof(c) ==
    /\ pc[c] = "await"
    /\ pc' = [ pc EXCEPT ![c] = "done" ]
    /\ last' = [ op |-> "eof", task |-> c ]
    /\ UNCHANGED << maps, events, lock, cur, hist, inflight, arrived >>

ConnSkipBroken(c) ==
    /\ pc[c] = "locked"
    /\ ~cur[c].ok
    /\ pc' = [ pc EXCEPT ![c] = "await" ]
    /\ cur' = [ cur EXCEPT ![c] = Idle ]
    /\ afterBad' = [ afterBad EXCEPT ![c] = TRUE ]
    /\ last' = [ op |-> "skip", task |-> c ]
    /\ UNCHANGED << maps, events, lock, powSeen, cmdState, inflight, arrived >>
\* Err(e): logged, continue; the guard is dropped
ConnSkip(c) ==
    /\ pc[c] = "locked"
    /\ ~cur[c].ok
    /\ lock' = Free
    /\ pc' = [ pc EXCEPT ![c] = "await" ]
    /\ cur' = [ cur EXCEPT ![c] = Idle ]
    /\ afterBad' = [ afterBad EXCEPT ![c] = TRUE ]
    /\ last' = [ op |-> "skip", task |-> c ]
    /\ UNCHANGED << maps, events, powSeen, cmdState, inflight, arrived >>

\* the catch-all arm: "Not implemented yet" is logged; the guard is dropped
ConnNotImplemented(c) ==
    /\ pc[c] = "locked"
    /\ cur[c].ok
    /\ ~HasMapArm(cur[c].cmd)
    /\ lock' = Free
    /\ pc' = [ pc EXCEPT ![c] = "await" ]
    /\ cur' = [ cur EXCEPT ![c] = Idle ]
    /\ last' = [ op |-> "unimplemented", task |-> c, cmd |-> cur[c].cmd ]
    /\ UNCHANGED << maps, events, hist, inflight, arrived >>

\* with_map_ref resolves the map handle of the matched arm and the map
\* operation is applied; the guard is dropped when the loop
\* body ends, or when the task unwinds from unimplemented!()
ConnApply(c) ==
    /\ pc[c] = "locked"
    /\ cur[c].ok
    /\ HasMapArm(cur[c].cmd)
    /\ \E cmd \in { cur[c].cmd } :
       \E r \in { ApplyCommand(cmd, list, node, pending_peers, peers) } :
          /\ list' = r.list
          /\ node' = r.node
          /\ pending_peers' = r.pending_peers
          /\ peers' = r.peers
          /\ lock' = Free
          /\ pc' = [ pc EXCEPT ![c] = IF r.panic THEN "panicked" ELSE "await" ]
          /\ cur' = [ cur EXCEPT ![c] = Idle ]
          /\ powSeen' = powSeen \cup PowKeys(r.list)
          /\ cmdState' =
               IF ~r.panic /\ cmd.t = "Block"
               THEN [ cmdState EXCEPT ![Octets(cmd.ip)] = "block" ]
               ELSE IF ~r.panic /\ cmd.t = "Unblock"
               THEN [ cmdState EXCEPT ![Octets(cmd.ip)] = "unblock" ]
               ELSE cmdState
          /\ last' = [ op |-> "command", task |-> c, cmd |-> cmd, panic |-> r.panic,
                       bad |-> afterBad[c], before |-> maps ]
          /\ UNCHANGED << status_map, events, afterBad, inflight, arrived >>

(* ------------------------------------------------------------------ *)
(* Specifications                                                       *)
(* ------------------------------------------------------------------ *)
\* items that act on the blacklist
BlacklistItems ==
    { [ ok |-> TRUE, cmd |-> c ] : c \in { Block(V4(IpPal)), Unblock(V4(IpPal)) } }
\* items of two contending connections
LockItems == { [ ok |-> TRUE, cmd |-> Block(V4(IpPal)) ], DecodeError }

\* the running system: classifier, event consumer, one control connection
Next ==
    \/ \E bl \in StartupBlacklists : Boot(bl)
    \/ MoreFrames /\ \E f \in SystemFrames : XdpRead("cpu0", f)
    \/ XdpSteps("cpu0")
    \/ EvRead
    \/ \E t \in { EventTask, "c1" } : Acquire(t)
    \/ EvApply
    \/ ConnAccept("c1")
    \/ \E item \in BlacklistItems : ConnRecv("c1", item)
    \/ ConnEof("c1")
    \/ ConnApply("c1")

Spec == Init /\ [][Next]_vars

\* the control plane: one connection delivering every kind of item
NextControl ==
    \/ \E bl \in StartupBlacklists : Boot(bl)
    \/ MoreFrames /\ \E f \in ShortFrames : XdpRead("cpu0", f)
    \/ XdpSteps("cpu0")
    \/ \E k \in PublicKeys, ep \in PeerEndpoints : PeerRegistered(k, ep)
    \/ EvRead
    \/ \E t \in { EventTask, "c1" } : Acquire(t)
    \/ EvApply
    \/ ConnAccept("c1")
    \/ \E item \in Items : ConnRecv("c1", item)
    \/ ConnEof("c1")
    \/ ConnSkip("c1")
    \/ ConnNotImplemented("c1")
    \/ ConnApply("c1")

SpecControl == Init /\ [][NextControl]_vars

\* the exclusive section: the event consumer and two connections contending
NextLock ==
    \/ \E bl \in StartupBlacklists : Boot(bl)
    \/ MoreFrames /\ \E f \in ShortFrames : XdpRead("cpu0", f)
    \/ XdpSteps("cpu0")
    \/ EvRead
    \/ \E t \in Tasks : Acquire(t)
    \/ EvApply
    \/ \E c \in Conns : ConnAccept(c)
    \/ \E c \in Conns, item \in LockItems : ConnRecv(c, item)
    \/ \E c \in Conns : ConnEof(c)
    \/ \E c \in Conns : ConnSkip(c)
    \/ \E c \in Conns : ConnApply(c)

SpecLock == Init /\ [][NextLock]_vars

\* the classifier as a function of the maps it finds and the frame it is given
PairsOf(F) == { PairOf(f) : f \in F }
PartialMaps(K, V) == UNION { [ D -> V ] : D \in SUBSET K }
InitClassifier ==
    /\ list \in PartialMaps({ ToBeBytes32(LoadU32(IpPal)) }, 0 .. 3)
    /\ status_map \in
         { m \in PartialMaps(PairsOf({ f \in Frames : ParsesAsTcp4(f) /\ ~Allowlisted(f) }),
                             0 .. 3) : Cardinality(DOMAIN m) <= 1 }
    /\ node = EmptyMap
    /\ pending_peers = EmptyMap
    /\ peers \in [ PublicKeys -> PeerEndpoints ]
    /\ powSeen = PowKeys(list)
    /\ InitTasks

NextClassifier == MoreFrames /\ \E f \in Frames : Packet(f)

SpecClassifier == InitClassifier /\ [][NextClassifier]_vars

\* the per-IP map holding as many other addresses as it has room for: every
\* remote address a payload was seen from has an entry
FillerKeys == { << 172, 16, a, b >> : a \in 0 .. 15, b \in 0 .. 15 }
FullList == [ k \in FillerKeys |-> POW_SENT ]

\* the running system once 256 other addresses have been seen
InitFull ==
    /\ list = FullList
    /\ status_map = EmptyMap
    /\ node = EmptyMap
    /\ pending_peers = EmptyMap
    /\ peers = EmptyMap
    /\ powSeen = PowKeys(FullList)
    /\ InitTasks

NextFull ==
    \/ MoreFrames /\ \E f \in SystemFrames : XdpRead("cpu0", f)
    \/ XdpSteps("cpu0")
    \/ EvRead
    \/ Acquire(EventTask)
    \/ EvApply

SpecFull == InitFull /\ [][NextFull]_vars

\* the classifier alone on the full per-IP map
SpecFullClassifier == InitFull /\ [][NextClassifier]_vars

(* ------------------------------------------------------------------ *)
(* Fixed-size encodings: tezedge-firewall/xdp-module/src/lib.rs         *)
(* ------------------------------------------------------------------ *)
EndpointLen == 6
PairLen == 12
EventLen == 60
PowLen == 56

\* u32::to_le_bytes and u32::from_le_bytes
ToLeBytes32(v) ==
    << v % 256, (v \div 256) % 256, (v \div 65536) % 256, (v \div 16777216) % 256 >>
FromLeBytes32(b) == b[1] + 256 * b[2] + 65536 * b[3] + 16777216 * b[4]
Zeros(n) == [ i \in 1 .. n |-> 0 ]

\* From<Endpoint> for [u8; 6] and From<[u8; 6]> for Endpoint
EncodeEndpoint(v) == v.ipv4 \o v.port
DecodeEndpoint(r) == [ ipv4 |-> SubSeq(r, 1, 4), port |-> SubSeq(r, 5, 6) ]

\* From<EndpointPair> for [u8; 12] and From<[u8; 12]> for EndpointPair
EncodePair(v) == EncodeEndpoint(v.local) \o EncodeEndpoint(v.remote)
DecodePairBroken(r) ==
    [ remote |-> DecodeEndpoint(SubSeq(r, 1, 6)), local |-> DecodeEndpoint(SubSeq(r, 7, 12)) ]
DecodePair(r) ==
    [ remote |-> DecodeEndpoint(SubSeq(r, 7, 12)), local |-> DecodeEndpoint(SubSeq(r, 1, 6)) ]

\* the values of EventInner
ReceivedPow(b) == [ t |-> "ReceivedPow", b |-> b ]
NotEnoughBytesForPow == [ t |-> "NotEnoughBytesForPow" ]
BlockedAlreadyConnected(a, c) ==
    [ t |-> "BlockedAlreadyConnected", already_connected |-> a, try_connect |-> c ]

\* From<EventInner> for [u8; 60]
EncodeEvent(v) ==
    CASE v.t = "ReceivedPow" -> ToLeBytes32(0) \o v.b
      [] v.t = "NotEnoughBytesForPow" -> ToLeBytes32(1) \o Zeros(PowLen)
      [] v.t = "BlockedAlreadyConnected" ->
            ToLeBytes32(2) \o EncodeEndpoint(v.already_connected)
            \o EncodeEndpoint(v.try_connect) \o Zeros(PowLen - 2 * EndpointLen)

\* From<[u8; 60]> for EventInner: panic!() on any other discriminant
DecodeEvent(r) ==
    CASE FromLeBytes32(SubSeq(r, 1, 4)) = 0 ->
            [ panic |-> FALSE, v |-> ReceivedPow(SubSeq(r, 5, EventLen)) ]
      [] FromLeBytes32(SubSeq(r, 1, 4)) = 1 ->
            [ panic |-> FALSE, v |-> NotEnoughBytesForPow ]
      [] FromLeBytes32(SubSeq(r, 1, 4)) = 2 ->
            [ panic |-> FALSE,
              v |-> BlockedAlreadyConnected(DecodeEndpoint(SubSeq(r, 5, 10)),
                                            DecodeEndpoint(SubSeq(r, 11, 16))) ]
      [] OTHER -> [ panic |-> TRUE, v |-> NotEnoughBytesForPow ]

\* values the encodings are examined on
ByteVals == { 0, 1, 255 }
CodecEndpoints ==
    { [ ipv4 |-> << a, b, c, d >>, port |-> << e, g >> ] :
      a \in ByteVals, b \in ByteVals, c \in ByteVals, d \in ByteVals,
      e \in ByteVals, g \in ByteVals }
PairEndpoints ==
    { [ ipv4 |-> ip, port |-> << e, g >> ] : ip \in RemoteIps, e \in ByteVals, g \in ByteVals }
CodecPairs == [ remote : PairEndpoints, local : PairEndpoints ]
PowArrays ==
    { [ i \in 1 .. PowLen |-> IF i = 1 THEN a ELSE IF i = PowLen THEN c ELSE b ] :
      a \in ByteVals, b \in ByteVals, c \in ByteVals }
CodecEvents ==
    { ReceivedPow(b) : b \in PowArrays } \cup { NotEnoughBytesForPow }
    \cup { BlockedAlreadyConnected(a, c) : a \in PairEndpoints, c \in PairEndpoints }

\* a value is encoded and the bytes are decoded again
CodecEndpoint(x) ==
    /\ last = Loaded
    /\ last' = [ op |-> "endpoint", x |-> x, bytes |-> EncodeEndpoint(x),
                 back |-> DecodeEndpoint(EncodeEndpoint(x)) ]
    /\ UNCHANGED << maps, events, lock, pc, cur, hist, inflight, arrived >>
CodecPair(x) ==
    /\ last = Loaded
    /\ last' = [ op |-> "pair", x |-> x, bytes |-> EncodePair(x),
                 back |-> DecodePair(EncodePair(x)) ]
    /\ UNCHANGED << maps, events, lock, pc, cur, hist, inflight, arrived >>
CodecEvent(x) ==
    /\ last = Loaded
    /\ last' = [ op |-> "inner", x |-> x, bytes |-> EncodeEvent(x),
                 back |-> DecodeEvent(EncodeEvent(x)) ]
    /\ UNCHANGED << maps, events, lock, pc, cur, hist, inflight, arrived >>

NextCodec ==
    \/ \E x \in CodecEndpoints : CodecEndpoint(x)
    \/ \E x \in CodecPairs : CodecPair(x)
    \/ \E x \in CodecEvents : CodecEvent(x)

SpecCodec == Init /\ [][NextCodec]_vars

\* arrays of 60 bytes handed to the decoder, their first four bytes being a
\* discriminant of the layout or not
DiscBytes == { 0, 1, 2, 3, 255 }
DecoderInputs ==
    { << a, b, 0, d >> \o p : a \in DiscBytes, b \in { 0, 1 }, d \in { 0, 1 }, p \in PowArrays }

\* EventInner::from(bytes)
DecodeBytes(r) ==
    /\ last = Loaded
    /\ last' = [ op |-> "decode", bytes |-> r, out |-> DecodeEvent(r) ]
    /\ UNCHANGED << maps, events, lock, pc, cur, hist, inflight, arrived >>

NextDecode == \E r \in DecoderInputs : DecodeBytes(r)

SpecDecode == Init /\ [][NextDecode]_vars

(* ------------------------------------------------------------------ *)
(* The classifier on several CPUs, its map accesses as separate steps   *)
(* ------------------------------------------------------------------ *)
\* frames of one remote address on two pairs
RaceFrames ==
    { f \in TcpFrames({ IpPal }, { 4001, 4002 }, { 5 }, { 0, 60 }) :
        f.pow # 26 }

\* items of a connection that blacklists
BlockItems == { [ ok |-> TRUE, cmd |-> Block(V4(IpPal)) ] }

\* one CPU against the event consumer and a connection that blacklists
NextRace ==
    \/ \E bl \in StartupBlacklists : Boot(bl)
    \/ MoreFrames /\ \E f \in RaceFrames : XdpRead("cpu0", f)
    \/ XdpSteps("cpu0")
    \/ EvRead
    \/ \E t \in { EventTask, "c1" } : Acquire(t)
    \/ EvApply
    \/ ConnAccept("c1")
    \/ \E item \in BlockItems : ConnRecv("c1", item)
    \/ ConnEof("c1")
    \/ ConnApply("c1")

SpecRace == Init /\ [][NextRace]_vars

\* two CPUs and the event consumer
NextCpus ==
    \/ \E bl \in StartupBlacklists : Boot(bl)
    \/ MoreFrames /\ \E cpu \in Cpus, f \in RaceFrames : XdpRead(cpu, f)
    \/ \E cpu \in Cpus : XdpSteps(cpu)
    \/ EvRead
    \/ Acquire(EventTask)
    \/ EvApply

SpecCpus == Init /\ [][NextCpus]_vars

(* ------------------------------------------------------------------ *)
(* The exclusive section under fair scheduling                          *)
(* ------------------------------------------------------------------ *)
\* items of two contending connections: a command that is applied, one that
\* fails to decode, an unimplemented variant, and one whose arm aborts
LiveItems ==
    LockItems
    \cup { [ ok |-> TRUE, cmd |-> c ] :
           c \in { Block(V6) } \cup { FilterRemoteAddr(V6, p) : p \in CmdPorts } }

NextLive ==
    \/ \E bl \in StartupBlacklists : Boot(bl)
    \/ MoreFrames /\ \E f \in ShortFrames : XdpRead("cpu0", f)
    \/ XdpSteps("cpu0")
    \/ EvRead
    \/ \E t \in Tasks : Acquire(t)
    \/ EvApply
    \/ \E c \in Conns : ConnAccept(c)
    \/ \E c \in Conns, item \in LiveItems : ConnRecv(c, item)
    \/ \E c \in Conns : ConnEof(c)
    \/ \E c \in Conns : ConnSkip(c)
    \/ \E c \in Conns : ConnNotImplemented(c)
    \/ \E c \in Conns : ConnApply(c)

\* The runtime polls every task that can run, so a task holding the guard
\* completes its loop body (no await point lies inside it); the mutex hands
\* the guard to its waiters in order of arrival, so a waiter is not passed
\* over for ever. Arrival of frames, records, connections and commands is not
\* assumed.
Fairness ==
    /\ \A t \in Tasks : SF_vars(Acquire(t))
    /\ WF_vars(EvApply)
    /\ \A c \in Conns :
          WF_vars(ConnSkip(c)) /\ WF_vars(ConnNotImplemented(c)) /\ WF_vars(ConnApply(c))

SpecLive == Init /\ [][NextLive]_vars /\ Fairness

(* ------------------------------------------------------------------ *)
(* Claims                                                               *)
(* ------------------------------------------------------------------ *)
PacketStep == last.op = "packet"
InspectedStep == last.op = "packet" /\ last.inspected
\* the key the classifier derives from the source address of the last frame
LastKey == ToBeBytes32(LoadU32(last.frame.saddr))

\* C1: a TCP packet from ip on a source port other than 80 and 443 is dropped
\* when the last Block/Unblock command applied for ip was Block(ip), and is
\* passed when it was Unblock(ip) and ip was not blacklisted since.
C1_BlockedIsDropped ==
    InspectedStep =>
        /\ last.cmd0 = "block" => last.verdict = "Drop"
        /\ last.cmd0 = "unblock" => last.verdict = "Pass"

\* C2: an inspected packet is dropped if and only if BLOCKED was set in the
\* status read for its remote address at the start of the invocation, whatever
\* the invocation captured or stored.
C2_DropIffBlocked ==
    InspectedStep => (last.verdict = "Drop" <=> StatusContains(last.read, BLOCKED))

\* C2 witness: a packet whose invocation read BLOCKED without POW_SENT,
\* captured proof-of-work bytes, notified userspace, and was dropped.
C2_Witness ==
    /\ InspectedStep
    /\ StatusContains(last.read, BLOCKED)
    /\ last.tag = "Bytes"
    /\ last.emitted = 1
    /\ last.verdict = "Drop"

\* C3: once POW_SENT has been stored for a remote address, every later packet
\* from that address is classified Nothing (no proof-of-work is captured again).
C3_PowCapturedOnce == (InspectedStep /\ last.seen) => last.tag = "Nothing"

\* C4: a TCP packet with source port 80 or 443 is passed, no proof-of-work
\* bytes are read for it, neither status map changes and no event is emitted.
C4_AllowlistedUntouched ==
    [][ ( last'.op = "packet" /\ last'.frame.kind = "tcp4"
          /\ last'.frame.source \in { PortHttp, PortHttps } )
        => ( /\ last'.verdict = "Pass"
             /\ ~last'.inspected
             /\ last'.tag = "None"
             /\ last'.emitted = 0
             /\ list' = list
             /\ status_map' = status_map
             /\ events' = events ) ]_vars

\* C4 witness: a packet from port 443 was passed although the status stored
\* for its source address carries BLOCKED.
C4_Witness ==
    /\ PacketStep
    /\ last.frame.kind = "tcp4"
    /\ last.frame.source = PortHttps
    /\ last.verdict = "Pass"
    /\ MapHas(list, LastKey)
    /\ StatusContains(list[LastKey], BLOCKED)

\* the event consumer completes the handling of the event it holds
EventDone == pc[EventTask] = "locked" /\ pc'[EventTask] = "await"
\* connection c completes the handling of the item it holds
ItemDone(c) == pc[c] = "locked" /\ pc'[c] # "locked"

\* C5: when the event consumer has handled a record for address ip: if it was
\* ReceivedPow with a payload the validator rejects at the target, or
\* NotEnoughBytesForPow, or BlockedAlreadyConnected, ip is a key of the
\* blacklist; if it was ReceivedPow with a payload the validator accepts, no
\* map has changed.
C5_EventOutcome ==
    [][ EventDone =>
          /\ ( \/ cur[EventTask].tag = "ReceivedPow"
                  /\ ~CheckProofOfWork(cur[EventTask].b, Target)
               \/ cur[EventTask].tag = "NotEnoughBytesForPow"
               \/ cur[EventTask].tag = "BlockedAlreadyConnected" )
             => MapHas(list', cur[EventTask].ip)
          /\ ( cur[EventTask].tag = "ReceivedPow"
               /\ CheckProofOfWork(cur[EventTask].b, Target) )
             => maps' = maps ]_vars

\* C6 as stated: the first packet from a remote endpoint (no per-IP and no
\* per-pair status stored) carrying at least 56 payload bytes causes exactly
\* one event, classified ReceivedPow.
C6_FirstPacket56 ==
    (InspectedStep /\ last.fresh /\ last.frame.payload >= 56)
        => (last.emitted = 1 /\ last.tag = "Bytes")

\* C6 amended: the first packet from a remote endpoint (no per-IP and no
\* per-pair status stored) carrying at least 60 payload bytes, the whole
\* window, causes exactly one event, classified ReceivedPow: the newest
\* record of the event stream carries the captured bytes for that endpoint.
C6_FirstPacketWindow ==
    (InspectedStep /\ last.fresh /\ last.frame.payload >= PowWindow)
        => ( /\ last.emitted = 1
             /\ last.tag = "Bytes"
             /\ events # << >>
             /\ events[Len(events)].pow_bytes.tag = "Bytes"
             /\ events[Len(events)].pair.remote.ipv4 = LastKey )

\* C6 witness: a first packet with a 64-byte payload produced one event
\* carrying the captured bytes.
C6_Witness ==
    /\ InspectedStep
    /\ last.fresh
    /\ last.frame.payload = 64
    /\ last.emitted = 1
    /\ events # << >>
    /\ events[Len(events)].pow_bytes.tag = "Bytes"

\* C7: no two userspace tasks are inside the exclusive section (holding the
\* module, from map-handle resolution to the end of the map operation) at once.
C7_MutualExclusion ==
    \A t1 \in Tasks, t2 \in Tasks :
        (t1 # t2) => ~(pc[t1] = "locked" /\ pc[t2] = "locked")

\* C7 witness: one connection is inside the section while the other
\* connection and the event consumer wait for it.
C7_Witness ==
    /\ pc["c1"] = "locked"
    /\ pc["c2"] = "lock"
    /\ pc[EventTask] = "lock"

\* C8: a packet from an endpoint that is present in the peer-identity table
\* makes the classifier emit an event classified BlockedAlreadyConnected.
C8_AlreadyConnectedDetected ==
    (InspectedStep /\ last.peer)
        => (last.emitted = 1 /\ last.tag = "BlockedAlreadyConnected")

\* C9: a command that fails to decode changes no map and leaves the
\* connection reading, and every well-formed command that follows it on the
\* connection is handled with the connection left reading.
C9_MalformedSkipped ==
    [][ \A c \in Conns :
          /\ (ItemDone(c) /\ ~cur[c].ok) => (maps' = maps /\ pc'[c] = "await")
          /\ (ItemDone(c) /\ cur[c].ok /\ afterBad[c]) => pc'[c] = "await" ]_vars

\* C10: a command carrying an IPv6 address changes no map, and the connection
\* that carried it goes on to read its next command.
C10_Ipv6Rejected ==
    [][ \A c \in Conns :
          (ItemDone(c) /\ cur[c].ok /\ cur[c].cmd.ip.v = 6)
              => (maps' = maps /\ pc'[c] = "await") ]_vars

\* the maps other than the blacklist, the local-port map, the pending-peer map
\* and the peer-identity map are left as they were, each unless named
OnlyChanges(names) ==
    /\ ("list" \in names) \/ list' = list
    /\ ("node" \in names) \/ node' = node
    /\ ("pending_peers" \in names) \/ pending_peers' = pending_peers
    /\ ("peers" \in names) \/ peers' = peers
    /\ status_map' = status_map

\* the effect of a handled command on the map it designates
CommandFrame(c) ==
    /\ cur[c].cmd.t \in { "Block", "Unblock" } => OnlyChanges({ "list" })
    /\ cur[c].cmd.t = "FilterLocalPort"
          => ( OnlyChanges({ "node" }) /\ MapHas(node', cur[c].cmd.port)
               /\ \A k \in DOMAIN node : MapHas(node', k) /\ node'[k] = node[k] )
    /\ cur[c].cmd.t = "FilterRemoteAddr"
          => ( OnlyChanges({ "pending_peers" })
               /\ ( cur[c].cmd.ip.v = 4 =>
                      MapHas(pending_peers',
                             [ ipv4 |-> cur[c].cmd.ip.o,
                               port |-> WirePort(cur[c].cmd.port) ]) ) )
    /\ cur[c].cmd.t = "Disconnected"
          => ( OnlyChanges({ "peers" })
               /\ \A k \in DOMAIN peers' : MapHas(peers, k) /\ peers'[k] = peers[k]
               /\ \A j \in DOMAIN peers : j # cur[c].cmd.pk => MapHas(peers', j) )

\* C11 as stated: a handled command changes only the map it designates, and
\* Disconnected(addr, pk) leaves no entry under pk in the peer-identity map,
\* whatever addr is.
C11_CommandFrame ==
    [][ \A c \in Conns :
          (ItemDone(c) /\ cur[c].ok)
              => ( /\ CommandFrame(c)
                   /\ cur[c].cmd.t = "Disconnected" => ~MapHas(peers', cur[c].cmd.pk) )
      ]_vars

\* C11 amended: a handled command changes only the map it designates, and
\* Disconnected(addr, pk) leaves no entry under pk in the peer-identity map
\* when addr is an IPv4 address; with an IPv6 address no map changes.
C11_CommandFrameV4 ==
    [][ \A c \in Conns :
          (ItemDone(c) /\ cur[c].ok)
              => ( /\ CommandFrame(c)
                   /\ (cur[c].cmd.t = "Disconnected" /\ cur[c].cmd.ip.v = 4)
                        => ~MapHas(peers', cur[c].cmd.pk)
                   /\ (cur[c].cmd.t = "Disconnected" /\ cur[c].cmd.ip.v = 6)
                        => maps' = maps )
      ]_vars

\* C11 witness: Disconnected with an IPv4 address removed the entry of its
\* public key while the blacklist held an entry, which stayed.
C11_Witness ==
    /\ last.op = "command"
    /\ last.cmd.t = "Disconnected"
    /\ last.cmd.ip.v = 4
    /\ MapHas(last.before[5], last.cmd.pk)
    /\ ~MapHas(peers, last.cmd.pk)
    /\ list # EmptyMap
    /\ list = last.before[1]

\* C12: Block(ip) applied to a blacklist that a Block(ip) produced (ip held
\* with the value Block stores) leaves the blacklist as it is, and Unblock(ip)
\* for an ip that is not in the blacklist leaves the blacklist as it is and
\* raises no error: the connection goes on reading.
C12_Idempotent ==
    [][ \A c \in Conns :
          (ItemDone(c) /\ cur[c].ok)
              => ( /\ ( /\ cur[c].cmd.t = "Block"
                        /\ cur[c].cmd.ip.v = 4
                        /\ MapHas(list, cur[c].cmd.ip.o)
                        /\ list[cur[c].cmd.ip.o] = 0 )
                      => (list' = list /\ pc'[c] = "await")
                   /\ ( /\ cur[c].cmd.t = "Unblock"
                        /\ (cur[c].cmd.ip.v = 6 \/ ~MapHas(list, cur[c].cmd.ip.o)) )
                      => (list' = list /\ pc'[c] = "await") )
      ]_vars

\* C13: decoding the fixed-size encoding of an Endpoint (6 bytes), of an
\* EndpointPair (12 bytes) and of an event classification (60 bytes) returns
\* the value that was encoded.
C13_RoundTrip ==
    /\ last.op = "endpoint" => (Len(last.bytes) = EndpointLen /\ last.back = last.x)
    /\ last.op = "pair" => (Len(last.bytes) = PairLen /\ last.back = last.x)
    /\ last.op = "inner"
         => (Len(last.bytes) = EventLen /\ ~last.back.panic /\ last.back.v = last.x)

\* C13 witness: a pair whose two endpoints differ came back from its 12 bytes.
C13_Witness ==
    /\ last.op = "pair"
    /\ last.x.remote # last.x.local
    /\ last.bytes = last.x.local.ipv4 \o last.x.local.port
                    \o last.x.remote.ipv4 \o last.x.remote.port
    /\ last.back = last.x

\* C14: decoding the bytes of a record whose discriminant is other than 0, 1
\* or 2 returns to its caller (with a decode error value): it does not abort
\* the task that decodes, which goes on with the following records.
C14_MalformedIsError ==
    ( /\ last.op = "decode"
      /\ FromLeBytes32(SubSeq(last.bytes, 1, 4)) \notin { 0, 1, 2 } )
        => ~last.out.panic

\* C15: a frame that is not IPv4/TCP, or whose headers cannot be parsed, is
\* passed without inspection: no map changes and no event is emitted.
C15_OtherFramesPass ==
    [][ ( last'.op = "packet" /\ last'.frame.kind # "tcp4" )
        => ( /\ last'.verdict = "Pass"
             /\ ~last'.inspected
             /\ last'.emitted = 0
             /\ maps' = maps
             /\ events' = events ) ]_vars

\* C15 witness: a frame cut short inside its headers was passed while the
\* per-IP map held entries, and no event is queued.
C15_Witness ==
    /\ PacketStep
    /\ last.frame.kind = "runt"
    /\ last.verdict = "Pass"
    /\ list # EmptyMap
    /\ events = << >>

\* the status an invocation computes from the status it read and the frame:
\* POW_SENT is added when it was not set and the frame carries payload
ComputedStatus(read, frame) ==
    IF ~StatusContains(read, POW_SENT) /\ frame.payload > 0
    THEN read + POW_SENT
    ELSE read

\* C16: for an inspected packet, if the status computed in the invocation
\* equals the status stored for its exact pair, no map changes and no event is
\* emitted; otherwise the per-IP entry of the remote address and the per-pair
\* entry both hold the computed status afterwards and exactly one event, for
\* this pair, has been added to the event stream.
C16_UpdateOnChange ==
    [][ ( last'.op = "packet" /\ last'.inspected )
        => LET p == PairOf(last'.frame)
               st == ComputedStatus(last'.read, last'.frame)
           IN IF MapHas(status_map, p) /\ status_map[p] = st
              THEN /\ maps' = maps
                   /\ events' = events
                   /\ last'.emitted = 0
              ELSE /\ MapHas(list', p.remote.ipv4) /\ list'[p.remote.ipv4] = st
                   /\ MapHas(status_map', p) /\ status_map'[p] = st
                   /\ Len(events') = Len(events) + 1
                   /\ SubSeq(events', 1, Len(events)) = events
                   /\ events'[Len(events')].pair = p
                   /\ events'[Len(events')].new_status = st
                   /\ last'.emitted = 1 ]_vars

\* C17 as stated: when POW_SENT is not set in the status read and the frame
\* carries fewer payload bytes than the 60-byte window, none at all included,
\* the packet is classified NotEnoughBytesForPow.
C17_ShortIsNotEnough ==
    ( /\ InspectedStep
      /\ ~StatusContains(last.read, POW_SENT)
      /\ last.frame.payload < PowWindow )
        => last.tag = "NotEnough"

\* C17 amended: when POW_SENT is not set in the status read, a frame that
\* carries at least one payload byte but fewer than the 60-byte window is
\* classified NotEnoughBytesForPow; a frame with no payload at all is
\* classified Nothing, and the invocation stores POW_SENT nowhere.
C17_ShortPayloadIsNotEnough ==
    ( InspectedStep /\ ~StatusContains(last.read, POW_SENT) )
        => ( /\ ( last.frame.payload > 0 /\ last.frame.payload < PowWindow )
                  => last.tag = "NotEnough"
             /\ last.frame.payload = 0
                  => ( /\ last.tag = "Nothing"
                       /\ MapHas(list, LastKey)
                            => ~StatusContains(list[LastKey], POW_SENT)
                       /\ last.emitted = 1
                            => ~StatusContains(events[Len(events)].new_status,
                                               POW_SENT) ) )

\* C17 witness: a packet with 59 payload bytes, one short of the window, was
\* classified NotEnoughBytesForPow and an event was emitted for it.
C17_Witness ==
    /\ InspectedStep
    /\ ~StatusContains(last.read, POW_SENT)
    /\ last.frame.payload = 59
    /\ last.tag = "NotEnough"
    /\ last.emitted = 1
    /\ events[Len(events)].pow_bytes.tag = "NotEnough"

\* C18: every record in the event stream carries one of the transmitted
\* classifications (captured bytes, not enough bytes, already connected), and
\* a packet whose classification is Nothing emits no event.
C18_EventsClassified ==
    /\ \A i \in 1 .. Len(events) :
          events[i].pow_bytes.tag \in { "Bytes", "NotEnough", "BlockedAlreadyConnected" }
    /\ ( InspectedStep /\ last.tag = "Nothing" ) => last.emitted = 0

\* a classifier invocation writes the per-IP entry (list.set)
ListSetStep == last'.op = "listset"

\* C19: when a classifier invocation writes the per-IP entry of an address
\* that userspace has blacklisted (by Block or from an event) and whose entry
\* is as userspace wrote it, the value written is the one computed from that
\* entry, not from a status read before userspace wrote.
C19_NoStaleOverwrite ==
    [][ ( /\ ListSetStep
          /\ cmdState[last'.frame.saddr] \in { "block", "event" }
          /\ MapHas(list, ToBeBytes32(LoadU32(last'.frame.saddr)))
          /\ list[ToBeBytes32(LoadU32(last'.frame.saddr))] = 0 )
        => ( \/ list' = list
             \/ list'[ToBeBytes32(LoadU32(last'.frame.saddr))]
                  = ComputedStatus(0, last'.frame) ) ]_vars

\* C20: with no userspace write to the per-IP entry of an address, an
\* invocation for an address whose stored status has already carried POW_SENT
\* (a capture event was emitted for it) emits no further event classified
\* ReceivedPow or NotEnoughBytesForPow.
C20_OneCapturePerIp ==
    ( /\ last.op = "packet"
      /\ last.seen
      /\ cmdState[last.frame.saddr] = "none" )
        => ~( last.emitted = 1 /\ last.tag \in { "Bytes", "NotEnough" } )

\* C21: under fair scheduling every userspace task that requests the lock
\* eventually holds it: each holder releases it after one event record or one
\* command, also when the command failed to decode, is an unimplemented
\* variant or aborts the task, and no holder waits for input while holding it.
C21_LockObtained ==
    \A t \in Tasks : (pc[t] = "lock") ~> (pc[t] = "locked")

\* C21 witness: the event consumer obtained the lock after one connection
\* aborted inside the section, while the other connection waits for it.
C21_Witness ==
    /\ last.op = "lock"
    /\ last.task = EventTask
    /\ lock = EventTask
    /\ pc["c1"] = "panicked"
    /\ pc["c2"] = "lock"

====
